---- MODULE Spec2Model ----
\* Pump House sales dashboard (src/app.py): the supplier-report parser, the
\* DuckDB fact store (tables sales and stores), the store-directory upload,
\* load_data and the aggregation helpers, modelled as state machines.
\*
\* Encoding of values
\*   TEXT      a string; StoreCode is a sequence of decimal digits so that
\*             zfill(3) and the \d{3} column pattern are computed, not assumed
\*             and Brand a sequence of characters so that the substring test
\*             of compute_top_comp_brands is computed
\*   DOUBLE    an integer (money in cents, so round(2) is exact)
\*   NULL/NaN  NullTxt in a text column, NullNum in a numeric column, NullCode
\*             for a StoreCode, NullBrand for a Brand
EXTENDS Integers, Sequences, FiniteSets, TLC

\* ---------------------------------------------------------------- bounds
MaxRows == 2
MaxSales == 2
MaxItems == 2
MaxStart == 2
MaxCsv == 2
MaxRaceRows == 2

NullTxt == "NULL"
NullNum == 0 - 1
NullCode == <<NullNum>>
NullBrand == <<NullTxt>>

\* ------------------------------------------------------- generic helpers
Range(s) == {s[i] : i \in 1..Len(s)}

RECURSIVE SeqsUpTo(_, _)
SeqsUpTo(S, n) ==
    IF n = 0 THEN {<< >>}
    ELSE LET shorter == SeqsUpTo(S, n - 1)
         IN shorter \cup {Append(s, x) : s \in {t \in shorter : Len(t) = n - 1}, x \in S}

RECURSIVE Count(_, _)
Count(x, s) == IF s = << >> THEN 0
               ELSE (IF Head(s) = x THEN 1 ELSE 0) + Count(x, Tail(s))

\* two row sequences hold the same rows the same number of times
SameRows(s, t) == /\ Len(s) = Len(t)
                  /\ \A i \in 1..Len(s) : Count(s[i], s) = Count(s[i], t)

RECURSIVE Concat(_)
Concat(ss) == IF ss = << >> THEN << >> ELSE Head(ss) \o Concat(Tail(ss))

\* position of the first occurrence of x in s, 0 when absent
RECURSIVE IndexOf(_, _)
IndexOf(x, s) == IF s = << >> THEN 0
                 ELSE IF Head(s) = x THEN 1
                 ELSE LET r == IndexOf(x, Tail(s)) IN IF r = 0 THEN 0 ELSE r + 1

\* ------------------------------------------------------ the sales table
\* CREATE TABLE sales: the columns in declaration order, and their types
SalesCols == <<"FiscalYear", "FiscalWeek", "InventoryPullDate", "SoldDateRange",
               "Brand", "Product", "Class", "Container", "RetailPrice", "Total",
               "Agent", "Grocery", "Licensee", "Other", "Public", "StoreCode",
               "QtySold", "Dollars">>

SalesTypes == <<"VARCHAR", "VARCHAR", "TIMESTAMP", "VARCHAR",
                "VARCHAR", "VARCHAR", "VARCHAR", "VARCHAR", "DOUBLE", "DOUBLE",
                "DOUBLE", "DOUBLE", "DOUBLE", "DOUBLE", "DOUBLE", "VARCHAR",
                "DOUBLE", "DOUBLE">>

\* ------------------------------------------------------------ the frames
\* A pandas DataFrame is [cols |-> column names in order, rows |-> sequence
\* of records over those names].

base_cols == <<"Item UPC", "Item Description", "Vendor Name", "Class",
               "Container Size", "Retail Price", "Total", "Agent", "Grocery",
               "Licensee", "Other", "Public">>

\* sales_long.rename(columns={...})
Rename(c) == CASE c = "Vendor Name" -> "Brand"
               [] c = "Item Description" -> "Product"
               [] c = "Container Size" -> "Container"
               [] c = "Retail Price" -> "RetailPrice"
               [] OTHER -> c

\* the columns parse_supplier_report appends to the core columns, in the
\* order of the assignments that create them
AddedCols == <<"Store Code", "Qty Sold", "Dollars", "FiscalYear", "FiscalWeek",
               "InventoryPullDate", "SoldDateRange">>

\* the type DuckDB gives each frame column when it scans the frame
DfType(c) == CASE c \in {"RetailPrice", "Total", "Agent", "Grocery", "Licensee",
                         "Other", "Public", "Qty Sold", "Dollars"} -> "DOUBLE"
               [] c = "InventoryPullDate" -> "TIMESTAMP"
               [] OTHER -> "VARCHAR"

DefaultOf(c) == CASE DfType(c) = "DOUBLE" -> 0
                  [] DfType(c) = "TIMESTAMP" -> "2024-01-07"
                  [] OTHER -> "-"

EmptyFrame == [cols |-> << >>, rows |-> << >>]

\* df.empty: no columns or no rows
IsEmpty(df) == df.cols = << >> \/ df.rows = << >>

\* ------------------------------------------------ parse_supplier_report
\* A workbook is
\*   [fiscal_year, fiscal_week, pull_date, sold_date_range : header cells,
\*    present    : the base columns its header row holds,
\*    store_cols : its per-store columns, each [code, metric],
\*    items      : its data rows, each [upc, desc, vendor, price],
\*    sold       : the cell of store column `code` in data row i, sold[code][i]]

\* re.match(r"^\d{3}\s+Qty Sold$", c)
IsSoldCol(c) == /\ Len(c.code) = 3
                /\ \A i \in 1..Len(c.code) : c.code[i] \in 0..9
                /\ c.metric = "Qty Sold"

CodeNum(code) == code[1] * 100 + code[2] * 10 + code[3]

\* sorted({c.split()[0] for c in sold_cols})
RECURSIVE SortCodes(_)
SortCodes(S) ==
    IF S = {} THEN << >>
    ELSE LET m == CHOOSE x \in S : \A y \in S : CodeNum(x) <= CodeNum(y)
         IN <<m>> \o SortCodes(S \ {m})

\* df[sold_col].fillna(0).astype(float)
Fillna0(x) == IF x = NullNum THEN 0 ELSE x

\* the cell of base column c in data row it
CoreCell(it, c) == CASE c = "Item UPC" -> it.upc
                     [] c = "Item Description" -> it.desc
                     [] c = "Vendor Name" -> it.vendor
                     [] c = "Retail Price" -> it.price
                     [] OTHER -> DefaultOf(c)

ParsedCols(present) ==
    LET kept == SelectSeq(base_cols, LAMBDA c : c \in present)
    IN [i \in 1..Len(kept) |-> Rename(kept[i])] \o AddedCols

\* one row of the long table: data row it, store column sc
ParsedRow(wb, it_i, sc) ==
    LET it   == wb.items[it_i]
        qty  == Fillna0(wb.sold[sc][it_i])
        cols == Range(ParsedCols(wb.present))
        core == [c \in wb.present |-> CoreCell(it, c)]
        dollars == IF "Retail Price" \in wb.present
                   THEN (IF it.price = NullNum THEN NullNum ELSE qty * it.price)
                   ELSE NullNum
    IN [c \in cols |->
          CASE c = "Store Code" -> sc
            [] c = "Qty Sold" -> qty
            [] c = "Dollars" -> dollars
            [] c = "FiscalYear" -> wb.fiscal_year
            [] c = "FiscalWeek" -> wb.fiscal_week
            [] c = "InventoryPullDate" -> wb.pull_date
            [] c = "SoldDateRange" -> wb.sold_date_range
            [] c = "Brand" -> core["Vendor Name"]
            [] c = "Product" -> core["Item Description"]
            [] c = "Container" -> core["Container Size"]
            [] c = "RetailPrice" -> core["Retail Price"]
            [] OTHER -> core[c]]

parse_supplier_report(wb) ==
    LET sold_cols   == {c \in wb.store_cols : IsSoldCol(c)}
        store_codes == SortCodes({c.code : c \in sold_cols})
        frame(sc)   == [i \in 1..Len(wb.items) |-> ParsedRow(wb, i, sc)]
        long_frames == [k \in 1..Len(store_codes) |-> frame(store_codes[k])]
    IN IF long_frames = << >> THEN EmptyFrame
       ELSE [cols |-> ParsedCols(wb.present), rows |-> Concat(long_frames)]

\* ---------------------------------------------------------- upsert_sales
KeyNames == <<"FiscalYear", "FiscalWeek", "Product", "Store Code">>
KeyCols  == <<"FiscalYear", "FiscalWeek", "Product", "StoreCode">>

\* the natural key of a frame row and of a persisted row
DfKey(r)  == [i \in 1..4 |-> r[KeyNames[i]]]
RowKey(r) == [i \in 1..4 |-> r[KeyCols[i]]]

IsNull(v, i) == IF i = 4 THEN v = NullCode ELSE v = NullTxt

\* WHERE FiscalYear=? AND FiscalWeek=? AND Product=? AND StoreCode=?
\* (a NULL parameter or column compares equal to nothing)
KeyMatches(r, key) ==
    \A i \in 1..4 : /\ ~IsNull(key[i], i)
                    /\ ~IsNull(r[KeyCols[i]], i)
                    /\ r[KeyCols[i]] = key[i]

\* one DELETE statement, committed on its own
DeleteKey(tbl, key) == SelectSeq(tbl, LAMBDA r : ~KeyMatches(r, key))

\* df[[...]].drop_duplicates(): the distinct keys, in order of first occurrence
RECURSIVE DropDuplicates(_)
DropDuplicates(ks) ==
    IF ks = << >> THEN << >>
    ELSE LET init == DropDuplicates(SubSeq(ks, 1, Len(ks) - 1))
             last_k == ks[Len(ks)]
         IN IF last_k \in Range(init) THEN init ELSE Append(init, last_k)

BatchKeys(df) == DropDuplicates([i \in 1..Len(df.rows) |-> DfKey(df.rows[i])])

\* the loop of DELETE statements
RECURSIVE DeleteKeys(_, _)
DeleteKeys(tbl, keys) ==
    IF keys = << >> THEN tbl
    ELSE DeleteKeys(DeleteKey(tbl, Head(keys)), Tail(keys))

\* DuckDB's casts between the types in play: any type to and from VARCHAR
\* (from VARCHAR the conversion is decided per value), none between
\* TIMESTAMP and DOUBLE
Castable(from, to) == from = to \/ from = "VARCHAR" \/ to = "VARCHAR"

\* INSERT INTO sales SELECT * FROM df binds the frame's columns to the
\* table's by position: it is rejected when the counts differ or a column's
\* type has no cast to the type of the table column at its position
InsertRejected(df) ==
    \/ Len(df.cols) # Len(SalesCols)
    \/ \E i \in 1..Len(SalesCols) : ~Castable(DfType(df.cols[i]), SalesTypes[i])

\* the value stored for v: itself when the types agree, its conversion
\* otherwise
Cast(v, from, to) == IF from = to THEN v ELSE [cast_to |-> to, of |-> v]

\* the persisted row of frame row r: table column i holds frame column i
SalesPos == [c \in Range(SalesCols) |-> IndexOf(c, SalesCols)]

InsertedRow(df, r) ==
    [c \in Range(SalesCols) |->
        LET i == SalesPos[c]
        IN Cast(r[df.cols[i]], DfType(df.cols[i]), SalesTypes[i])]

InsertedRows(df) == [i \in 1..Len(df.rows) |-> InsertedRow(df, df.rows[i])]

\* upsert_sales(df) on table tbl: the table it leaves, how it ended and what
\* it returned. Every statement is committed as it executes (the connection
\* is in autocommit), so the deletes stand when the INSERT raises.
upsert_sales(tbl, df) ==
    IF IsEmpty(df) THEN [sales |-> tbl, outcome |-> "returned", count |-> 0]
    ELSE IF \E i \in 1..4 : KeyNames[i] \notin Range(df.cols)
    THEN [sales |-> tbl, outcome |-> "raised", count |-> 0]
    ELSE LET deleted == DeleteKeys(tbl, BatchKeys(df))
         IN IF InsertRejected(df)
            THEN [sales |-> deleted, outcome |-> "raised", count |-> 0]
            ELSE [sales |-> deleted \o InsertedRows(df), outcome |-> "returned",
                  count |-> Len(df.rows)]

\* ------------------------------------------------------ the stores table
\* CREATE TABLE stores (StoreCode TEXT PRIMARY KEY, ...)
StoreCols == <<"StoreCode", "StoreName", "Address", "City", "Province", "Lat", "Lon">>

\* str.zfill(width): zeros on the left up to the width
RECURSIVE zfill(_, _)
zfill(code, width) == IF Len(code) >= width THEN code ELSE zfill(<<0>> \o code, width)

\* INSERT INTO stores SELECT * FROM sdf: bound by position, and rejected
\* when the column counts differ or the primary key is NULL or repeated
StoresInsertRejected(sdf) ==
    \/ Len(sdf.cols) # Len(StoreCols)
    \/ \E i \in 1..Len(sdf.rows) : sdf.rows[i][sdf.cols[1]] = NullCode
    \/ \E i, j \in 1..Len(sdf.rows) :
          i # j /\ sdf.rows[i][sdf.cols[1]] = sdf.rows[j][sdf.cols[1]]

StorePos == [c \in Range(StoreCols) |-> IndexOf(c, StoreCols)]

StoresInsertedRows(sdf) ==
    [i \in 1..Len(sdf.rows) |->
        [c \in Range(StoreCols) |-> sdf.rows[i][sdf.cols[StorePos[c]]]]]

\* the Store Directory upload handler on an uploaded CSV
\*   [malformed : read_csv raises, cols : its header, rows : its records]
upload_stores(tbl, csv) ==
    IF csv.malformed THEN [stores |-> tbl, outcome |-> "raised", count |-> 0]
    ELSE IF "StoreCode" \notin Range(csv.cols)
    THEN [stores |-> tbl, outcome |-> "raised", count |-> 0]
    ELSE LET sdf == [cols |-> csv.cols,
                     rows |-> [i \in 1..Len(csv.rows) |->
                                  [csv.rows[i] EXCEPT !["StoreCode"] =
                                      IF @ = NullCode THEN @ ELSE zfill(@, 3)]]]
             deleted == << >>
         IN IF StoresInsertRejected(sdf)
            THEN [stores |-> deleted, outcome |-> "raised", count |-> 0]
            ELSE [stores |-> deleted \o StoresInsertedRows(sdf), outcome |-> "ok",
                  count |-> Len(sdf.rows)]

\* ------------------------------------------------------------- load_data
JoinCols == {"StoreName", "City", "Province", "Lat", "Lon"}

NullOf(c) == IF c \in {"Lat", "Lon"} THEN NullNum ELSE NullTxt

\* one output row of the join: the fact's columns and the store's five
Joined(s, st) == [c \in (DOMAIN s) \cup JoinCols |-> IF c \in JoinCols THEN st[c] ELSE s[c]]

NoStore == [c \in JoinCols |-> NullOf(c)]

\* an inner join: a fact without a store yields no row
JoinRows_Inner(s, st_tbl) ==
    LET matches == SelectSeq(st_tbl, LAMBDA st : st.StoreCode = s.StoreCode)
    IN [i \in 1..Len(matches) |-> Joined(s, matches[i])]

\* FROM sales s LEFT JOIN stores st ON st.StoreCode = s.StoreCode
JoinRows(s, st_tbl) ==
    LET matches == SelectSeq(st_tbl, LAMBDA st : /\ s.StoreCode # NullCode
                                                 /\ st.StoreCode # NullCode
                                                 /\ st.StoreCode = s.StoreCode)
    IN IF matches = << >> THEN <<Joined(s, NoStore)>>
       ELSE [i \in 1..Len(matches) |-> Joined(s, matches[i])]

load_data(s_tbl, st_tbl) == Concat([i \in 1..Len(s_tbl) |-> JoinRows(s_tbl[i], st_tbl)])

\* ------------------------------------------------------- bounded inputs
\* the natural keys the frames draw from: one key, the three keys that
\* differ from it in one component, and a key whose Product is missing
KeyUniverse == {<<"2024", "W1", "P1", <<0, 0, 1>>>>,
                <<"2024", "W2", "P1", <<0, 0, 1>>>>,
                <<"2024", "W1", "P2", <<0, 0, 1>>>>,
                <<"2024", "W1", "P1", <<0, 0, 2>>>>,
                <<"2024", "W1", NullTxt, <<0, 0, 1>>>>}

Qtys == {1, 2}

PumpHouse == <<"P", "u", "m", "p", " ", "H", "o", "u", "s", "e">>
AleCo == <<"A", "l", "e", " ", "C", "o">>

BrandOf(p) == IF p = "P1" THEN PumpHouse ELSE AleCo
PriceOf(p) == IF p = "P1" THEN 500 ELSE 300

\* the column names of a frame laid out like the table, under the names
\* upsert_sales reads the key from
TableOrderCols ==
    [i \in 1..Len(SalesCols) |->
        CASE SalesCols[i] = "StoreCode" -> "Store Code"
          [] SalesCols[i] = "QtySold" -> "Qty Sold"
          [] OTHER -> SalesCols[i]]

TableOrderRow(key, qty) ==
    [c \in Range(TableOrderCols) |->
        CASE c = "FiscalYear" -> key[1]
          [] c = "FiscalWeek" -> key[2]
          [] c = "Product" -> key[3]
          [] c = "Store Code" -> key[4]
          [] c = "Brand" -> BrandOf(key[3])
          [] c = "RetailPrice" -> PriceOf(key[3])
          [] c = "Qty Sold" -> qty
          [] c = "Dollars" -> qty * PriceOf(key[3])
          [] OTHER -> DefaultOf(c)]

\* the keys the running application is fed: two stores, one week, one product
AppKeys == {<<"2024", "W1", "P1", <<0, 0, 1>>>>, <<"2024", "W1", "P1", <<0, 0, 2>>>>}

\* frames in the table's column order, of up to n rows over the given keys
TableOrderFrames(keys, qtys, n) ==
    {[cols |-> TableOrderCols, rows |-> rs] :
        rs \in SeqsUpTo({TableOrderRow(k, q) : k \in keys, q \in qtys}, n)}

AppFrames == TableOrderFrames(AppKeys, {1}, MaxRows)
CallFrames == TableOrderFrames(KeyUniverse, Qtys, MaxRows)

AllBase == Range(base_cols)

Item(p) == [upc |-> "U1", desc |-> p, vendor |-> BrandOf(p), price |-> PriceOf(p)]

NoStoreCols == {[code |-> <<1>>, metric |-> "Qty Sold"],
                [code |-> <<0, 0, 1>>, metric |-> "Qty On Hand"]}
OneStoreCol == {[code |-> <<0, 0, 1>>, metric |-> "Qty Sold"],
                [code |-> <<0, 0, 1>>, metric |-> "Qty On Hand"]}
TwoStoreCols == {[code |-> <<0, 0, 2>>, metric |-> "Qty Sold"],
                 [code |-> <<0, 0, 1>>, metric |-> "Qty Sold"],
                 [code |-> <<1>>, metric |-> "Qty Sold"]}

\* the headers of the workbooks: the base columns and the store columns
Headers == {<<AllBase, NoStoreCols>>, <<AllBase, OneStoreCol>>, <<AllBase, TwoStoreCols>>,
            <<AllBase \ {"Item UPC"}, OneStoreCol>>,
            <<AllBase \ {"Item Description"}, OneStoreCol>>}

WorkbooksOf(weeks, products) ==
    {[fiscal_year |-> "2024", fiscal_week |-> w, pull_date |-> "2024-01-07",
      sold_date_range |-> "-", present |-> h[1], store_cols |-> h[2], items |-> its,
      sold |-> [code \in {c.code : c \in h[2]} |->
                   [i \in 1..Len(its) |-> IF i = 1 THEN 2 ELSE NullNum]]] :
        w \in weeks, h \in Headers,
        its \in SeqsUpTo({Item(p) : p \in products}, MaxItems)}

AppWorkbooks == WorkbooksOf({"W1"}, {"P1"})
CallWorkbooks == WorkbooksOf({"W1", "W2"}, {"P1", "P2"})

CsvCols == {StoreCols, SubSeq(StoreCols, 1, 6), SubSeq(StoreCols, 2, 7)}

CsvRow(code, name, lat) ==
    [c \in Range(StoreCols) |->
        CASE c = "StoreCode" -> code
          [] c = "StoreName" -> name
          [] c = "Lat" -> lat
          [] c = "Lon" -> IF lat = NullNum THEN NullNum ELSE 66
          [] OTHER -> "-"]

CsvRowUniverse == {CsvRow(<<1>>, "North", 45), CsvRow(<<0, 0, 1>>, "Old North", NullNum),
                   CsvRow(<<0, 0, 2>>, "South", 46), CsvRow(NullCode, "Nowhere", 47)}

\* the uploaded files: CSVs with every column, CSVs that lack a column (of
\* at most one record), and a file read_csv cannot read
CsvsOver(cs, n) ==
    {[malformed |-> FALSE, cols |-> cs,
      rows |-> [i \in 1..Len(rs) |-> [c \in Range(cs) |-> rs[i][c]]]] :
        rs \in SeqsUpTo(CsvRowUniverse, n)}

Csvs == CsvsOver(StoreCols, MaxCsv)
        \cup UNION {CsvsOver(cs, 1) : cs \in CsvCols \ {StoreCols}}
        \cup {[malformed |-> TRUE, cols |-> << >>, rows |-> << >>]}

\* ------------------------------------------------------------- the state
VARIABLES
    sales,      \* table sales: the persisted rows, in insertion order
    stores,     \* table stores
    last,       \* the handler that ran last: [op, outcome, count]
    df,         \* the frame handed to upsert_sales
    pc,         \* position of the scripted runs
    before,     \* table sales before the first call of a scripted run
    after1,     \* table sales after the first call of a scripted run
    run,        \* per racing ingestion: [pc, df, keys]
    finished,   \* the racing ingestions that completed, in order
    facts,      \* the fact collection handed to the aggregation helpers
    view        \* what the aggregation helpers computed

vars == <<sales, stores, last, df, pc, before, after1, run, finished, facts, view>>

Idle == [op |-> "none", outcome |-> "none", count |-> 0]

\* con = duckdb.connect(DB_PATH); CREATE TABLE IF NOT EXISTS ...
Init ==
    /\ sales = << >>
    /\ stores = << >>
    /\ last = Idle
    /\ df = EmptyFrame
    /\ pc = "app"
    /\ before = << >>
    /\ after1 = << >>
    /\ run = << >>
    /\ finished = << >>
    /\ facts = << >>
    /\ view = << >>

Scripted == <<df, pc, before, after1, run, finished, facts, view>>

\* upsert_sales called with a frame in the table's column order
upsert_sales_call ==
    \E f \in AppFrames :
        LET r == upsert_sales(sales, f)
        IN /\ Len(r.sales) <= MaxSales
           /\ sales' = r.sales
           /\ last' = [op |-> "upsert", outcome |-> r.outcome, count |-> r.count]
           /\ UNCHANGED <<stores, Scripted>>

\* "Ingest uploaded file": parse, then upsert unless nothing was parsed; an
\* error of upsert_sales reaches the caller
ingest_uploaded ==
    \E wb \in AppWorkbooks :
        LET parsed == parse_supplier_report(wb)
            r == upsert_sales(sales, parsed)
        IN IF IsEmpty(parsed)
           THEN /\ last' = [op |-> "upload", outcome |-> "no_rows", count |-> 0]
                /\ UNCHANGED <<sales, stores, Scripted>>
           ELSE /\ Len(r.sales) <= MaxSales
                /\ sales' = r.sales
                /\ last' = [op |-> "upload", outcome |-> r.outcome, count |-> r.count]
                /\ UNCHANGED <<stores, Scripted>>

\* "Fetch and Ingest URL": the same behind a try/except that reports the
\* error; the fetch itself may fail
ingest_url ==
    \/ /\ last' = [op |-> "url", outcome |-> "fetch_failed", count |-> 0]
       /\ UNCHANGED <<sales, stores, Scripted>>
    \/ \E wb \in AppWorkbooks :
        LET parsed == parse_supplier_report(wb)
            r == upsert_sales(sales, parsed)
        IN IF IsEmpty(parsed)
           THEN /\ last' = [op |-> "url", outcome |-> "no_rows", count |-> 0]
                /\ UNCHANGED <<sales, stores, Scripted>>
           ELSE /\ Len(r.sales) <= MaxSales
                /\ sales' = r.sales
                /\ last' = [op |-> "url", outcome |-> r.outcome, count |-> r.count]
                /\ UNCHANGED <<stores, Scripted>>

\* the Store Directory upload
store_upload ==
    \E csv \in Csvs :
        LET r == upload_stores(stores, csv)
        IN /\ stores' = r.stores
           /\ last' = [op |-> "stores", outcome |-> r.outcome, count |-> r.count]
           /\ UNCHANGED <<sales, Scripted>>

Next == upsert_sales_call \/ ingest_uploaded \/ ingest_url \/ store_upload

Spec == Init /\ [][Next]_vars

\* ------------------------------------------- one frame, upserted twice
\* A table as upsert_sales calls leave it, a frame (parsed from a workbook
\* or laid out like the table), and upsert_sales applied to it twice.

StartTables == {InsertedRows(f) : f \in TableOrderFrames(KeyUniverse, {1}, MaxStart)}

InitUpsert ==
    /\ sales \in StartTables
    /\ stores = << >>
    /\ last = Idle
    /\ df = EmptyFrame
    /\ pc = "start"
    /\ before = << >>
    /\ after1 = << >>
    /\ run = << >>
    /\ finished = << >>
    /\ facts = << >>
    /\ view = << >>

\* parsed = parse_supplier_report(data); nothing is ingested when it is empty
take_parsed ==
    /\ pc = "start"
    /\ \E wb \in CallWorkbooks :
        LET parsed == parse_supplier_report(wb)
        IN /\ df' = parsed
           /\ pc' = IF IsEmpty(parsed) THEN "no_rows" ELSE "parsed"
    /\ UNCHANGED <<sales, stores, last, before, after1, run, finished, facts, view>>

take_frame ==
    /\ pc = "start"
    /\ \E f \in CallFrames : df' = f
    /\ pc' = "frame"
    /\ UNCHANGED <<sales, stores, last, before, after1, run, finished, facts, view>>

first_call ==
    /\ pc \in {"parsed", "frame"}
    /\ LET r == upsert_sales(sales, df)
       IN /\ sales' = r.sales
          /\ after1' = r.sales
          /\ last' = [op |-> IF pc = "parsed" THEN "upload" ELSE "upsert",
                      outcome |-> r.outcome, count |-> r.count]
    /\ before' = sales
    /\ pc' = "once"
    /\ UNCHANGED <<stores, df, run, finished, facts, view>>

second_call ==
    /\ pc = "once"
    /\ LET r == upsert_sales(sales, df)
       IN /\ sales' = r.sales
          /\ last' = [last EXCEPT !.outcome = r.outcome, !.count = r.count]
    /\ pc' = "twice"
    /\ UNCHANGED <<stores, df, before, after1, run, finished, facts, view>>

NextUpsert == take_parsed \/ take_frame \/ first_call \/ second_call

SpecUpsert == InitUpsert /\ [][NextUpsert]_vars

\* ------------------------------------------------ two racing ingestions
\* Two executions of upsert_sales on the same database, each statement
\* committed on its own, interleaved statement by statement.

Procs == {1, 2}

HasUniqueKeys(f) ==
    \A i, j \in 1..Len(f.rows) : i # j => DfKey(f.rows[i]) # DfKey(f.rows[j])

RaceFrames == {f \in TableOrderFrames(AppKeys, Qtys, MaxRaceRows) :
                  ~IsEmpty(f) /\ HasUniqueKeys(f)}

NotRunning == [pc |-> "idle", df |-> EmptyFrame, keys |-> << >>]

InitRace ==
    /\ sales = << >>
    /\ stores = << >>
    /\ last = Idle
    /\ df = EmptyFrame
    /\ pc = "race"
    /\ before = << >>
    /\ after1 = << >>
    /\ run = [p \in Procs |-> NotRunning]
    /\ finished = << >>
    /\ facts = << >>
    /\ view = << >>

\* upsert_sales is entered: keys = df[[...]].drop_duplicates()
race_begin(p) ==
    /\ run[p].pc = "idle"
    /\ \E f \in RaceFrames :
          run' = [run EXCEPT ![p] = [pc |-> "deleting", df |-> f, keys |-> BatchKeys(f)]]
    /\ UNCHANGED <<sales, stores, last, df, pc, before, after1, finished, facts, view>>

\* one iteration of the loop: one DELETE
race_delete(p) ==
    /\ run[p].pc = "deleting"
    /\ run[p].keys # << >>
    /\ sales' = DeleteKey(sales, Head(run[p].keys))
    /\ run' = [run EXCEPT ![p].keys = Tail(@)]
    /\ UNCHANGED <<stores, last, df, pc, before, after1, finished, facts, view>>

\* the INSERT, and the return
race_insert(p) ==
    /\ run[p].pc = "deleting"
    /\ run[p].keys = << >>
    /\ IF InsertRejected(run[p].df)
       THEN /\ run' = [run EXCEPT ![p].pc = "raised"]
            /\ UNCHANGED sales
       ELSE /\ run' = [run EXCEPT ![p].pc = "done"]
            /\ sales' = sales \o InsertedRows(run[p].df)
    /\ finished' = Append(finished, p)
    /\ UNCHANGED <<stores, last, df, pc, before, after1, facts, view>>

NextRace == \E p \in Procs : race_begin(p) \/ race_delete(p) \/ race_insert(p)

SpecRace == InitRace /\ [][NextRace]_vars

\* -------------------------------------------------- aggregation helpers
IsNullCol(c, v) == CASE c = "StoreCode" -> v = NullCode
                     [] c = "Brand" -> v = NullBrand
                     [] c \in {"Lat", "Lon", "Dollars"} -> v = NullNum
                     [] OTHER -> v = NullTxt

\* ["Dollars"].sum(): NaN counts for nothing
RECURSIVE SumDollars(_)
SumDollars(rows) ==
    IF rows = << >> THEN 0
    ELSE (IF Head(rows).Dollars = NullNum THEN 0 ELSE Head(rows).Dollars)
         + SumDollars(Tail(rows))

\* df.groupby(cols, as_index=False)["Dollars"].sum(): one group per
\* combination of key values; a row with a null key value is left out
\* (groupby's dropna=True)
GroupBySum(rows, cols) ==
    LET keyed == SelectSeq(rows, LAMBDA r : \A c \in cols : ~IsNullCol(c, r[c]))
        keys == {[c \in cols |-> keyed[i][c]] : i \in 1..Len(keyed)}
    IN {[key |-> k,
         Dollars |-> SumDollars(SelectSeq(keyed, LAMBDA r : [c \in cols |-> r[c]] = k))] :
           k \in keys}

\* .sort_values("Dollars", ascending=False): every order of the groups that
\* is descending in Dollars (the order of equal totals is not specified)
RECURSIVE SortedOrders(_)
SortedOrders(G) ==
    IF G = {} THEN {<< >>}
    ELSE LET top == {g \in G : \A h \in G : h.Dollars <= g.Dollars}
         IN UNION {{<<g>> \o rest : rest \in SortedOrders(G \ {g})} : g \in top}

\* s[:n], .head(n)
FirstN(s, n) == SubSeq(s, 1, IF Len(s) < n THEN Len(s) ELSE n)

UpperLetters == <<"A", "B", "C", "D", "E", "F", "G", "H", "I", "J", "K", "L", "M",
                  "N", "O", "P", "Q", "R", "S", "T", "U", "V", "W", "X", "Y", "Z">>
LowerLetters == <<"a", "b", "c", "d", "e", "f", "g", "h", "i", "j", "k", "l", "m",
                  "n", "o", "p", "q", "r", "s", "t", "u", "v", "w", "x", "y", "z">>

\* str.lower()
Lower(s) == [i \in 1..Len(s) |->
                IF s[i] \in Range(UpperLetters)
                THEN LowerLetters[IndexOf(s[i], UpperLetters)] ELSE s[i]]

\* sub in s
Contains(sub, s) ==
    \E i \in 0..(Len(s) - Len(sub)) : SubSeq(s, i + 1, i + Len(sub)) = sub

\* the competitors taken without leaving the first brand out
compute_top_comp_brands_NoExclude(t, pump_house_name) ==
    LET brands == [i \in 1..Len(t) |-> t[i].key.Brand]
        found  == SelectSeq(brands, LAMBDA b : Contains(Lower(pump_house_name), Lower(b)))
        pump   == IF found # << >> THEN FirstN(found, 1) ELSE FirstN(brands, 1)
    IN pump \o FirstN(brands, 5)

\* compute_top_comp_brands, given t, the brand totals as sorted
compute_top_comp_brands(t, pump_house_name) ==
    LET brands == [i \in 1..Len(t) |-> t[i].key.Brand]
        found  == SelectSeq(brands, LAMBDA b : Contains(Lower(pump_house_name), Lower(b)))
        pump   == IF found # << >> THEN FirstN(found, 1) ELSE FirstN(brands, 1)
        others == FirstN(SelectSeq(brands, LAMBDA b : b \notin Range(pump)), 5)
    IN pump \o others

\* the sidebar's filters: sel gives an inclusion set per dimension, an
\* empty set leaving the dimension unrestricted
FilterDims == {"FiscalWeek", "Brand", "StoreCode", "City", "Product"}

ApplyFilters(df_all, sel) ==
    SelectSeq(df_all, LAMBDA r : \A d \in FilterDims : sel[d] = {} \/ r[d] \in sel[d])

\* map_df: the geo aggregate, then dropna(subset=["Lat","Lon"])
map_df(rows) ==
    {g \in GroupBySum(rows, {"StoreCode", "StoreName", "City", "Lat", "Lon"}) :
        g.key.Lat # NullNum /\ g.key.Lon # NullNum}

\* ---------------------------------------------------- the rendered page
\* A database as the handlers leave it, and the page script run on it.

Pump1 == <<"P", "u", "m", "p", "H", "o", "u", "s", "e">>
Pump2 == <<"P", "U", "M", "P", "H", "O", "U", "S", "E", " ", "X">>
Letter(c) == <<c>>

\* brand, product and the Dollars of its rows
BrandLines == {<<Letter("A"), "P1", <<60, 40>>>>, <<Pump1, "P2", <<50>>>>,
               <<Letter("B"), "P3", <<30, NullNum>>>>, <<Letter("C"), "P4", <<10>>>>,
               <<Letter("D"), "P5", <<10>>>>, <<Letter("E"), "P6", <<5>>>>,
               <<Letter("F"), "P7", <<3>>>>, <<PumpHouse, "P8", <<20>>>>,
               <<Pump2, "P9", <<50>>>>, <<NullBrand, "P0", <<500>>>>}

BrandRow(line, i) ==
    [c \in Range(SalesCols) |->
        CASE c = "FiscalYear" -> "2024"
          [] c = "FiscalWeek" -> IF i = 1 THEN "W1" ELSE "W2"
          [] c = "Product" -> line[2]
          [] c = "StoreCode" -> <<0, 0, 1>>
          [] c = "Brand" -> line[1]
          [] c = "QtySold" -> 1
          [] c = "RetailPrice" -> line[3][i]
          [] c = "Dollars" -> line[3][i]
          [] OTHER -> DefaultOf(c)]

RECURSIVE BrandTable(_)
BrandTable(lines) ==
    IF lines = {} THEN << >>
    ELSE LET l == CHOOSE x \in lines : TRUE
         IN [i \in 1..Len(l[3]) |-> BrandRow(l, i)] \o BrandTable(lines \ {l})

BrandTables == {BrandTable(ls) : ls \in SUBSET BrandLines}

ViewStores == {upload_stores(<< >>, csv).stores : csv \in Csvs}

NoSel == [d \in FilterDims |-> {}]
Sels == {NoSel, [NoSel EXCEPT !["FiscalWeek"] = {"W1"}],
         [NoSel EXCEPT !["StoreCode"] = {<<0, 0, 1>>}]}

Targets == {PumpHouse, Lower(Pump1)}

InitView ==
    /\ \/ sales \in StartTables /\ stores \in ViewStores
       \/ sales \in BrandTables /\ stores = << >>
    /\ last = Idle
    /\ df = EmptyFrame
    /\ pc = "page"
    /\ before = << >>
    /\ after1 = << >>
    /\ run = << >>
    /\ finished = << >>
    /\ facts = << >>
    /\ view = << >>

\* one run of the page script: load_data, the filters, brand share, the map
\* and the leaderboards (every section is skipped on an empty selection)
render ==
    /\ pc = "page"
    /\ \E sel \in Sels :
        LET rows == ApplyFilters(load_data(sales, stores), sel)
        IN /\ facts' = rows
           /\ IF rows = << >>
              THEN view' = [sel |-> sel]
              ELSE \E t \in SortedOrders(GroupBySum(rows, {"Brand"})),
                      s \in SortedOrders(GroupBySum(rows, {"StoreCode", "StoreName"})) :
                      view' = [sel |-> sel,
                               ordered_brands |-> compute_top_comp_brands(t, PumpHouse),
                               map_df |-> map_df(rows),
                               top10 |-> FirstN(s, 10),
                               lb_stores |-> FirstN(s, 10),
                               lb_brands |-> FirstN(t, 10)]
    /\ pc' = "rendered"
    /\ UNCHANGED <<sales, stores, last, df, before, after1, run, finished>>

\* compute_top_comp_brands called on the loaded facts with a target name
brands_call ==
    /\ pc = "page"
    /\ sales # << >>
    /\ \E target \in Targets :
        LET rows == load_data(sales, stores)
        IN /\ facts' = rows
           /\ \E t \in SortedOrders(GroupBySum(rows, {"Brand"})) :
                 view' = [target |-> target, t |-> t,
                          ordered |-> compute_top_comp_brands(t, target)]
    /\ pc' = "brands"
    /\ UNCHANGED <<sales, stores, last, df, before, after1, run, finished>>

NextView == render \/ brands_call

SpecView == InitView /\ [][NextView]_vars

\* ================================================================ claims

KeysOf(f) == IF \A i \in 1..4 : KeyNames[i] \in Range(f.cols)
             THEN Range(BatchKeys(f)) ELSE {}

RowsWithKey(tbl, k) == SelectSeq(tbl, LAMBDA r : RowKey(r) = k)

\* C1: in every state reachable by upsert_sales calls the sales table holds
\* at most one row per natural key (FiscalYear, FiscalWeek, Product,
\* StoreCode).
C1_OneRowPerKey ==
    \A i, j \in 1..Len(sales) : i # j => RowKey(sales[i]) # RowKey(sales[j])

C3_AllOrNothing ==
    (pc = "once" /\ last.outcome = "raised") => sales = before

\* C4: a store-directory upload is atomic: after it the stores table is
\* either the uploaded rows (a success) or exactly what it was before; a
\* failing upload fails before the delete.
C4_UploadAtomic ==
    [][(last'.op = "stores" /\ stores' # stores) =>
          (last'.outcome = "ok" /\ Len(stores') = last'.count)]_vars

\* C5: upsert_sales is idempotent on its batch: a second call with the same
\* batch leaves the persisted rows (and so their count) as the first call
\* left them.
C5_Idempotent ==
    pc = "twice" => SameRows(sales, after1)

OtherRows(tbl, f) == SelectSeq(tbl, LAMBDA r : RowKey(r) \notin KeysOf(f))

\* C6: upsert_sales leaves untouched every persisted row whose natural key
\* is not among the batch's keys, and adds the batch's rows: ingesting a
\* batch of a new fiscal week leaves the old-week rows and adds the new-week
\* rows.
C6_OtherKeysKeptBatchAdded ==
    pc = "once" =>
        /\ OtherRows(sales, df) = OtherRows(before, df)
        /\ \A k \in KeysOf(df) : RowsWithKey(sales, k) # << >>

\* the frame half of C6 alone: rows under other keys are untouched
C6_OtherKeysKept ==
    pc = "once" => OtherRows(sales, df) = OtherRows(before, df)

\* C7: when two ingestions race on overlapping keys, once both completed
\* every shared key has exactly one persisted row, the row of the ingestion
\* that completed last.
C7_LastWins ==
    (\A p \in Procs : run[p].pc = "done") =>
        LET w == finished[Len(finished)]
            shared == KeysOf(run[1].df) \cap KeysOf(run[2].df)
        IN \A k \in shared :
              RowsWithKey(sales, k) =
                  RowsWithKey(InsertedRows(run[w].df), k)

StoreOf(code) == {j \in 1..Len(stores) : stores[j].StoreCode = code}

\* C8: load_data returns one row for each persisted sales fact, with the
\* StoreName, City, Province, Lat, Lon of the store whose (3-character
\* zero-padded) StoreCode equals the fact's, and with null location fields
\* when no store matches; no fact is dropped.
C8_LeftJoin ==
    LET out == load_data(sales, stores)
    IN /\ Len(out) = Len(sales)
       /\ \A j \in 1..Len(stores) : Len(stores[j].StoreCode) >= 3
       /\ \A i \in 1..Len(sales) :
             /\ \A c \in Range(SalesCols) : out[i][c] = sales[i][c]
             /\ \A j \in StoreOf(sales[i].StoreCode) :
                   \A c \in JoinCols : out[i][c] = stores[j][c]
             /\ StoreOf(sales[i].StoreCode) = {} =>
                   \A c \in JoinCols : out[i][c] = NullOf(c)

\* after a store-directory replace: one fact joined to the store uploaded
\* as "1", another without a store
C8_Witness ==
    /\ last.op = "stores"
    /\ last.outcome = "ok"
    /\ LET out == load_data(sales, stores)
       IN \E i, j \in 1..Len(out) :
             /\ out[i].StoreName = "North" /\ out[i].Lat = 45
             /\ out[j].StoreName = NullTxt /\ out[j].Lat = NullNum

SameStore(rows, code) == SelectSeq(rows, LAMBDA r : r.StoreCode = code)
SameBrand(rows, b) == SelectSeq(rows, LAMBDA r : r.Brand = b)

\* C9: a fact with missing coordinates is excluded from the map aggregate
\* but retained in the leaderboards: its Dollars are counted in the by-store
\* grouping and in the by-brand grouping.
C9_UnmappedFactsInLeaderboards ==
    (pc = "rendered" /\ facts # << >>) =>
        \A i \in 1..Len(facts) :
            (facts[i].Lat = NullNum \/ facts[i].Lon = NullNum) =>
                /\ \A g \in view.map_df : g.key.StoreCode # facts[i].StoreCode
                /\ \E n \in 1..Len(view.lb_stores) :
                      /\ view.lb_stores[n].key.StoreCode = facts[i].StoreCode
                      /\ view.lb_stores[n].Dollars =
                            SumDollars(SameStore(facts, facts[i].StoreCode))
                /\ \E n \in 1..Len(view.lb_brands) :
                      /\ view.lb_brands[n].key.Brand = facts[i].Brand
                      /\ view.lb_brands[n].Dollars =
                            SumDollars(SameBrand(facts, facts[i].Brand))

BrandsIn(rows) == {rows[i].Brand : i \in 1..Len(rows)} \ {NullBrand}
Total(rows, b) == SumDollars(SameBrand(rows, b))
IsTarget(b) == Contains(Lower(view.target), Lower(b))

\* C10: compute_top_comp_brands returns at most 6 distinct brand names: first
\* the brand whose name contains the target case-insensitively (the top
\* brand by total Dollars when none does), then the next 5 brands in
\* descending order of total Dollars, the first one excluded; {A: 100,
\* PumpHouse: 50, B: 30, C: 10} with target "pumphouse" gives
\* [PumpHouse, A, B, C].
C10_BrandOrder ==
    pc = "brands" =>
        LET o == view.ordered
            B == BrandsIn(facts)
        IN /\ Len(o) <= 6
           /\ \A i, j \in 1..Len(o) : i # j => o[i] # o[j]
           /\ Range(o) \subseteq B
           /\ Len(o) = IF Cardinality(B) < 6 THEN Cardinality(B) ELSE 6
           /\ B # {} =>
                 /\ IF \E b \in B : IsTarget(b)
                    THEN /\ IsTarget(o[1])
                         /\ \A b \in B : IsTarget(b) => Total(facts, b) <= Total(facts, o[1])
                    ELSE \A b \in B : Total(facts, b) <= Total(facts, o[1])
                 /\ \A i \in 2..(Len(o) - 1) : Total(facts, o[i]) >= Total(facts, o[i + 1])
                 /\ \A b \in B \ Range(o) : \A i \in 2..Len(o) :
                       Total(facts, b) <= Total(facts, o[i])
           /\ (B = {Letter("A"), Pump1, Letter("B"), Letter("C")}
                  /\ view.target = Lower(Pump1)) =>
                 o = <<Pump1, Letter("A"), Letter("B"), Letter("C")>>

\* more than 6 brands, the target among them but not the top brand
C10_Witness ==
    /\ pc = "brands"
    /\ Cardinality(BrandsIn(facts)) > 6
    /\ Len(view.ordered) = 6
    /\ IsTarget(view.ordered[1])
    /\ view.t[1].key.Brand # view.ordered[1]
    /\ \E i \in 1..Len(facts) : facts[i].Brand = NullBrand

====
